---- MODULE Spec2Model ----
(***************************************************************************)
(* Model of the tcon command scheduler: common/schedule.py (Schedule),     *)
(* server/ipc.py (ServerProcess and its queue) and aimsun_entrypoint.py    *)
(* (handler registry, _execute, _process_ipc, _process_schedule and the    *)
(* AAPI callbacks); the command models of common/models.py and the         *)
(* configuration loader of common/config.py (SpecAccept); the registry     *)
(* alone (SpecRegistry); common/result.py and common/status.py             *)
(* (SpecResult); the TconQueue of common/ipc.py (SpecTransport); and the   *)
(* lifecycle of ServerProcess with its worker processes (SpecSupervisor).  *)
(* Simulated times are integers; IMMEDIATE is -1.                          *)
(***************************************************************************)
EXTENDS Integers, Sequences, FiniteSets, TLC

VARIABLES
    heap,       \* Schedule._heap: set of entries [time, seq, cmd]
    order,      \* Schedule._order: next sequence number
    queue,      \* ServerProcess.queue: messages put by the API worker, FIFO
    server,     \* _SERVER: "unset" before AAPILoad, "started", after AAPIUnLoad "none" or "kept"
    idgen,      \* _ID_GEN: next generated action id
    pc,         \* position of the host thread
    clock,      \* timeSta of the current step / up_to of the current drain
    step,       \* number of the current step (0 = AAPISimulationReady)
    hist,       \* history of executions and pushes, in program order
    nextId,     \* identity given to the next command that comes into being
    made,       \* number of commands that came from the configuration or the API
    startQueue, \* messages queued when the current AAPIManage call started
    handlers,   \* _HANDLERS: command kind -> the function registered for it
    tq,         \* TconQueue: its listener, its connection, its socket file
    peers,      \* the clients of the TconQueue: connection state and sent data
    sup,        \* the ServerProcess in use: its handle, its queue, its flag
    procs       \* the worker processes: state, and the instance that spawned each

vars == <<heap, order, queue, server, idgen, pc, clock, step, hist, nextId,
          made, startQueue, handlers, tq, peers, sup, procs>>

----------------------------------------------------------------------------
(* Bounds *)
MaxCmds == 2
MaxClock == 2
MaxPush == 3
MaxPeers == 2
MaxCalls == 2
MaxOps == 3
MaxWorkers == 2

(* Program constants: CommandBase.IMMEDIATE; a duration of None; and       *)
(* float('inf'), above every time of the model.                            *)
IMMEDIATE == -1
DurNone == -100
Inf == 1000

(* The command kinds modelled, of those the registry holds a handler for:   *)
(* a handler with (payload, starts_at), one with (payload) and one without  *)
(* parameters.  measures_reset has no handler: the decorator meant for it   *)
(* names CommandType.MEASURES_CLEAR, which is not a member.                *)
Handled == {"measure_create", "measure_remove", "incidents_reset",
            "incident_create"}

(* A registered function: its name and the number of its parameters. *)
Fn(name, sig_len) == [name |-> name, sig_len |-> sig_len]

(* _HANDLERS once the module is imported *)
Registered ==
    ("measure_create" :> Fn("_measure_create", 2))
    @@ ("measure_remove" :> Fn("_measure_remove", 1))
    @@ ("incidents_reset" :> Fn("_incidents_reset", 0))
    @@ ("incident_create" :> Fn("_incident_create", 1))

(* handler = _HANDLERS.get(cmd.command); handler is not None *)
HasHandler(kind) == kind \in DOMAIN handlers

Tpl(kind, t, d, aid) ==
    [command |-> kind, time |-> t, duration |-> d, id_action |-> aid]

(* Commands a configuration or a request can hold in the runs of Spec.  A measure_create       *)
(* carries a duration (DurNone = omitted) and an id_action (0 = omitted).  *)
Templates ==
    {Tpl("measure_create", IMMEDIATE, d, 0) : d \in {DurNone, -1, 1}}
    \cup {Tpl("measure_create", 1, 1, 5), Tpl("measure_create", 0, 1, -3)}
    \cup {Tpl("incidents_reset", t, DurNone, 0) : t \in {IMMEDIATE, 2}}
    \cup {Tpl("measures_reset", 1, DurNone, 0)}

MkCmd(tpl, id) ==
    [id |-> id, parent |-> 0, command |-> tpl.command, time |-> tpl.time,
     duration |-> tpl.duration, id_action |-> tpl.id_action]

(* the command pushed is again a measure_create with a duration *)
MeasureRemoveCmdCreates(id, parent, ends_at, action_id) ==
    [id |-> id, parent |-> parent, command |-> "measure_create",
     time |-> ends_at, duration |-> 1, id_action |-> action_id]

(* MeasureRemoveCmd(time=ends_at, payload=MeasureRemoveDto(id_action=...)) *)
MeasureRemoveCmd(id, parent, ends_at, action_id) ==
    [id |-> id, parent |-> parent, command |-> "measure_remove",
     time |-> ends_at, duration |-> DurNone, id_action |-> action_id]

----------------------------------------------------------------------------
(* Schedule *)

(* ties broken against the insertion counter *)
EntryLessLifo(a, b) ==
    \/ a.time < b.time
    \/ a.time = b.time /\ a.seq > b.seq

EntryLess(a, b) ==
    \/ a.time < b.time
    \/ a.time = b.time /\ a.seq < b.seq

(* heap[0]: the least entry by (time, seq) *)
HeapTop(h) == CHOOSE e \in h : \A f \in h : f = e \/ EntryLess(e, f)

HeapPush(h, ord, cb) == h \cup {[time |-> cb.time, seq |-> ord, cmd |-> cb]}

(* the root is read and left in place *)
HeapPopKeep(h) == h

HeapPop(h) == h \ {HeapTop(h)}

(* the bound up_to is not looked at *)
ReadyCondAny(h, up_to) == h # {}

(* the bound up_to is excluded *)
ReadyCondStrict(h, up_to) == h # {} /\ HeapTop(h).time < up_to

(* while heap and heap[0][0] <= up_to *)
ReadyCond(h, up_to) == h # {} /\ HeapTop(h).time <= up_to

(* an empty Schedule answers 0 *)
peek_timeZero(h) == IF h # {} THEN HeapTop(h).time ELSE 0

(* self._heap[0][0] if self._heap else float('inf') *)
peek_time(h) == IF h # {} THEN HeapTop(h).time ELSE Inf

RECURSIVE PushAll(_, _, _)
PushAll(h, ord, items) ==
    IF items = <<>> THEN h
    ELSE PushAll(HeapPush(h, ord, Head(items)), ord + 1, Tail(items))

----------------------------------------------------------------------------
(* History records *)
Ev(kind, cmd, via, res, at, value, rest) ==
    [ev |-> kind, cmd |-> cmd, via |-> via, res |-> res, at |-> at,
     value |-> value, rest |-> rest, step |-> step, clock |-> clock]

Execs == {i \in DOMAIN hist : hist[i].ev = "exec"}
Pushes == {i \in DOMAIN hist : hist[i].ev = "push"}
Yields == {i \in DOMAIN hist : hist[i].ev = "yield"}

(* ids of the entries of h that ready(up_to) has still to yield *)
DueIds(h, up_to) == {e.cmd.id : e \in {f \in h : f.time <= up_to}}

(* ids of the messages of q whose command is due at t *)
DueMsgs(q, t) == {q[k].id : k \in {n \in DOMAIN q : q[n].time <= t}}

----------------------------------------------------------------------------
(* Dispatcher *)

(* What the simulation API can answer to the call a handler makes: it      *)
(* returns ("ok"), the handler turns its failure into an error Result       *)
(* ("err"), or an exception leaves the handler ("raise").                  *)
ApiAnswers(kind) ==
    CASE kind = "measure_create" -> {"ok", "err", "raise"}
      [] kind = "measure_remove" -> {"ok", "err"}
      [] kind = "incidents_reset" -> {"ok", "err"}
      [] kind = "incident_create" -> {"ok", "err"}
      [] OTHER -> {"none"}

(* m.id_action or next(_ID_GEN) *)
ActionId(cmd, gen) == IF cmd.id_action # 0 THEN cmd.id_action ELSE gen

(* only `m.duration` is looked at: a duration that is set, whatever its sign *)
HasDurationSet(cmd) == cmd.duration # DurNone /\ cmd.duration # 0

(* m.duration and m.duration > 0 *)
HasDuration(cmd) == cmd.duration # DurNone /\ cmd.duration # 0 /\ cmd.duration > 0

(* the second argument the 2-parameter wrapper hands to the handler *)
StartsAt(cmd, now) == cmd.time

(* the duration is subtracted *)
EndsAtBefore(starts_at, duration) == starts_at - duration

(* the duration is not added *)
EndsAtStart(starts_at, duration) == starts_at

(* ends_at = starts_at + m.duration *)
EndsAt(starts_at, duration) == starts_at + duration

(* every creation handler pushes a removal *)
PushesRemovalAny(kind) == kind \in {"measure_create", "incident_create"}

(* The handlers that push a removal command: _measure_create alone.        *)
(* _incident_create hands the duration to AKIGenerateIncident and returns. *)
PushesRemoval(kind) == kind = "measure_create"

(* Outcome of handler(cmd) as _execute sees it *)
HandlerResult(cmd, api, gen) ==
    CASE cmd.command = "measure_create" ->
            IF api = "ok" /\ HasDuration(cmd) /\ ActionId(cmd, gen) <= 0
            THEN "raise"            \* MeasureRemoveDto(id_action) rejects id <= 0
            ELSE api
      [] OTHER -> api

(* no failure boundary around handler(cmd) *)
ExecutePropagates == FALSE

(* try: ... except Exception: log.exception(...) in _execute *)
ExecuteCatches == TRUE

(* Where the host thread stands after handler(cmd) ended with res.  The   *)
(* loop of _process_ipc has an except of its own.                          *)
AfterHandler(res, via, at) ==
    IF res = "raise" /\ ~ExecuteCatches /\ via = "sched" THEN "idle" ELSE at

(* the lookup _HANDLERS[cmd.command] raises KeyError out of _execute *)
AfterMissingRaises(via, at) == IF via = "sched" THEN "idle" ELSE at

(* handler is None: log.warning(...); return *)
AfterMissing(via, at) == at

(* _execute(cmd), called from the loop `via` ("ipc" or "sched"); base is   *)
(* the heap and q the queue the loop is left with.                         *)
Execute(cmd, via, base, q) ==
    IF ~HasHandler(cmd.command)
    THEN /\ hist' = Append(hist, Ev("exec", cmd, via, "nohandler", cmd.time, 0,
                                    DueIds(base, clock) \cup DueMsgs(q, clock)))
         /\ heap' = base
         /\ pc' = AfterMissing(via, pc)
         /\ UNCHANGED <<idgen, nextId, order>>
    ELSE \E api \in ApiAnswers(cmd.command) :
         LET res == HandlerResult(cmd, api, idgen)
             gens == cmd.command = "measure_create" /\ api # "raise"
                     /\ cmd.id_action = 0
             aid == ActionId(cmd, idgen)
             starts == StartsAt(cmd, clock)
             ends == EndsAt(starts, cmd.duration)
             auto == PushesRemoval(cmd.command) /\ res = "ok"
                     /\ HasDuration(cmd)
             rm == MeasureRemoveCmd(nextId, cmd.id, ends, aid)
             after == IF auto THEN HeapPush(base, order, rm) ELSE base
             value == IF res = "ok" /\ cmd.command = "measure_create" THEN aid ELSE 0
             done == Ev("exec", cmd, via, res, starts, value,
                        DueIds(after, clock) \cup DueMsgs(q, clock))
         IN /\ idgen' = (IF gens THEN idgen + 1 ELSE idgen)
            /\ heap' = after
            /\ pc' = AfterHandler(res, via, pc)
            /\ IF auto
               THEN /\ order' = order + 1
                    /\ nextId' = nextId + 1
                    /\ hist' = hist \o <<Ev("push", rm, "auto", "-", ends, 0, {}), done>>
               ELSE /\ UNCHANGED <<order, nextId>>
                    /\ hist' = Append(hist, done)

----------------------------------------------------------------------------
(* the two calls of AAPIManage exchanged *)
PhaseOrderSwapped == <<"sched", "ipc">>

(* AAPIManage runs _process_ipc, then _process_schedule *)
PhaseOrder == <<"ipc", "sched">>

PhaseAfter(p) == IF p = PhaseOrder[1] THEN PhaseOrder[2] ELSE "idle"

(* _SERVER is truthy: it refers to a ServerProcess, the one AAPILoad       *)
(* started or the one a failed stop() has left in the global               *)
IsServer(srv) == srv \in {"started", "kept"}

(* Entering a phase: _process_ipc returns at once `if not _SERVER` or     *)
(* `if not _SCHEDULE` (an empty Schedule is falsy).                        *)
Enter(p, h, srv) ==
    IF p = "ipc" /\ (~IsServer(srv) \/ h = {}) THEN PhaseAfter("ipc") ELSE p

(* a command due exactly now is deferred *)
IpcDueStrict(cmd, current_time) == cmd.time < current_time

(* if cmd.time <= current_time *)
IpcDue(cmd, current_time) == cmd.time <= current_time

----------------------------------------------------------------------------
(* Static schedules a configuration can hold: lists of at most MaxCmds     *)
(* commands.                                                               *)
StaticSchedules ==
    {<<>>} \cup
    UNION {[1..n -> Templates] : n \in 1..MaxCmds}

RECURSIVE Number(_, _)
Number(tpls, first) ==
    IF tpls = <<>> THEN <<>>
    ELSE <<MkCmd(Head(tpls), first)>> \o Number(Tail(tpls), first + 1)

(* TconQueue.__init__: no listener, no connection; backlog holds the     *)
(* clients that have connected and are not accepted yet.                   *)
NoQueue ==
    [listener |-> "none", conn |-> 0, connClosed |-> FALSE, backlog |-> <<>>,
     artifact |-> FALSE, gen |-> 1]

(* the clients: not connected, nothing sent *)
NoPeers == [p \in 1..MaxPeers |-> [st |-> "new", closed |-> FALSE, buf |-> <<>>]]

(* ServerProcess.__init__: a queue, no process handle; notify is the flag   *)
(* the variant of common/ipc.py shares with its worker, created clear.      *)
NoSupervisor ==
    [inst |-> 1, proc |-> 0, queue |-> "open", pipe |-> <<>>, feeder |-> <<>>,
     notify |-> "clear", at |-> "idle"]

(* no worker process has been spawned *)
NoProcs == [p \in 1..MaxWorkers |-> [st |-> "unborn", inst |-> 0]]

Init ==
    /\ heap = {}
    /\ order = 0
    /\ queue = <<>>
    /\ server = "unset"
    /\ idgen = 1
    /\ pc = "unloaded"
    /\ clock = 0
    /\ step = 0
    /\ hist = <<>>
    /\ nextId = 1
    /\ made = 0
    /\ startQueue = <<>>
    /\ handlers = Registered
    /\ tq = NoQueue
    /\ peers = NoPeers
    /\ sup = NoSupervisor
    /\ procs = NoProcs

(* AAPILoad: _load() then _SERVER.start() *)
AAPILoad ==
    /\ pc = "unloaded"
    /\ \E tpls \in StaticSchedules :
        LET items == Number(tpls, nextId)
        IN /\ heap' = PushAll({}, 0, items)
           /\ order' = Len(items)
           /\ nextId' = nextId + Len(items)
           /\ made' = Len(items)
    /\ server' = "started"
    /\ idgen' = 1
    /\ pc' = "loaded"
    /\ UNCHANGED <<queue, clock, step, hist, startQueue>>
    /\ UNCHANGED handlers
    /\ UNCHANGED <<tq, peers>>
    /\ UNCHANGED <<sup, procs>>

(* AAPISimulationReady: _process_schedule(up_to=0.0) begins *)
AAPISimulationReady ==
    /\ pc = "loaded"
    /\ pc' = "ready"
    /\ clock' = 0
    /\ UNCHANGED <<heap, order, queue, server, idgen, step, hist, nextId,
                   made, startQueue>>
    /\ UNCHANGED handlers
    /\ UNCHANGED <<tq, peers>>
    /\ UNCHANGED <<sup, procs>>

(* AAPIManage(timeSta = t) is called *)
AAPIManage ==
    /\ pc = "idle"
    /\ \E t \in (clock + 1)..MaxClock :
        /\ clock' = t
        /\ step' = step + 1
    /\ startQueue' = queue
    /\ pc' = Enter(PhaseOrder[1], heap, server)
    /\ UNCHANGED <<heap, order, queue, server, idgen, hist, nextId, made>>
    /\ UNCHANGED handlers
    /\ UNCHANGED <<tq, peers>>
    /\ UNCHANGED <<sup, procs>>

----------------------------------------------------------------------------
(* The acceptance boundary: entries of the configuration and requests of   *)
(* the API as they are written, before a command is built from them.       *)

(* the entry or request has no "time" key *)
TimeOmitted == -200

(* the entry or request lacks a field that is declared with Field(...) *)
FieldMissing == -300

RawCmd(kind, t, ini, d) ==
    [command |-> kind, time |-> t, ini_time |-> ini, duration |-> d,
     id_action |-> 0]

(* What a configuration or a client can send: incident_create with         *)
(* ini_time above, equal to and below the schedule time, with and without   *)
(* a time, one without its mandatory ini_time, and a command whose time is  *)
(* negative and not IMMEDIATE.                                              *)
Requests ==
    {RawCmd("incident_create", TimeOmitted, 0, 1),
     RawCmd("incident_create", TimeOmitted, FieldMissing, 1),
     RawCmd("incident_create", TimeOmitted, -1, 1),
     RawCmd("incident_create", 1, 1, 1),
     RawCmd("incident_create", 1, 2, 1),
     RawCmd("incidents_reset", -2, 0, DurNone)}

(* an omitted time becomes 0 *)
CmdTimeZero(raw_time) == IF raw_time = TimeOmitted THEN 0 ELSE raw_time

(* time: float = Field(default=IMMEDIATE); no constraint on the value *)
CmdTime(raw_time) == IF raw_time = TimeOmitted THEN IMMEDIATE ELSE raw_time

(* the comparison is strict: ini_time equal to time passes *)
IniAfterTimeStrict(kind, time, ini) == ~(kind = "incident_create" /\ ini < time)

(* IncidentCreateCmd._ini_after_time: raises if payload.ini_time <= time;  *)
(* the other command classes have no validator.                            *)
IniAfterTime(kind, time, ini) == ~(kind = "incident_create" /\ ini <= time)

(* the fields declared with Field(...) are there *)
HasMandatory(raw) == raw.ini_time # FieldMissing

(* the input model and the command model accept the entry *)
Validates(raw) ==
    /\ HasMandatory(raw)
    /\ IniAfterTime(raw.command, CmdTime(raw.time), raw.ini_time)

(* the values of CommandType, the discriminator of Command *)
CommandTypes ==
    {"incident_create", "incident_remove", "incidents_clear_section",
     "incidents_reset", "measure_create", "measure_remove", "measures_reset",
     "policy_activate", "policy_deactivate"}

(* every message passes for a command *)
ModelValidateAny(msg) == TRUE

(* Command.model_validate(raw_cmd) returns a command: the discriminator     *)
(* names a command class and the validators of that class pass             *)
ModelValidate(msg) ==
    IF msg.command \notin CommandTypes THEN FALSE
    ELSE IF msg.command = "incident_create"
    THEN HasMandatory(msg) /\ IniAfterTime(msg.command, msg.time, msg.ini_time)
    ELSE TRUE

(* the exception of model_validate leaves _process_ipc *)
AfterInvalidRaises(at) == "idle"

(* except Exception as e: log.exception(...); the for loop goes on *)
AfterInvalid(at) == at

(* the newest message is taken *)
get_nowaitNewest(q) == [msg |-> q[Len(q)], rest |-> SubSeq(q, 1, Len(q) - 1)]

(* queue.get_nowait() on a non-empty queue: the oldest message, first in    *)
(* first out                                                                *)
get_nowait(q) == [msg |-> Head(q), rest |-> Tail(q)]

(* one iteration of `for raw_cmd in _SERVER.try_recv_all()`: the message  *)
(* is validated, then executed if due, else pushed                        *)
IpcRecv ==
    /\ pc = "ipc"
    /\ queue # <<>>
    /\ queue' = get_nowait(queue).rest
    /\ LET cmd == get_nowait(queue).msg
       IN IF ~ModelValidate(cmd)
          THEN /\ hist' = Append(hist, Ev("discard", cmd, "ipc", "invalid",
                                          cmd.time, 0, {}))
               /\ pc' = AfterInvalid(pc)
               /\ UNCHANGED <<heap, order, idgen, nextId>>
          ELSE IF IpcDue(cmd, clock)
          THEN Execute(cmd, "ipc", heap, get_nowait(queue).rest)
          ELSE /\ heap' = HeapPush(heap, order, cmd)
               /\ order' = order + 1
               /\ hist' = Append(hist, Ev("push", cmd, "ipc", "-", cmd.time, 0, {}))
               /\ UNCHANGED <<idgen, nextId, pc>>
    /\ UNCHANGED <<server, clock, step, made, startQueue>>
    /\ UNCHANGED handlers
    /\ UNCHANGED <<tq, peers>>
    /\ UNCHANGED <<sup, procs>>

(* get_nowait() raises Empty: the drain ends and _process_ipc returns *)
IpcEmpty ==
    /\ pc = "ipc"
    /\ queue = <<>>
    /\ pc' = Enter(PhaseAfter("ipc"), heap, server)
    /\ UNCHANGED <<heap, order, queue, server, idgen, clock, step, hist,
                   nextId, made, startQueue>>
    /\ UNCHANGED handlers
    /\ UNCHANGED <<tq, peers>>
    /\ UNCHANGED <<sup, procs>>

(* one iteration of `for cmd in _SCHEDULE.ready(up_to)` *)
SchedPop ==
    /\ pc \in {"ready", "sched"}
    /\ ReadyCond(heap, clock)
    /\ Execute(HeapTop(heap).cmd, "sched", HeapPop(heap), <<>>)
    /\ UNCHANGED <<queue, server, clock, step, made, startQueue>>
    /\ UNCHANGED handlers
    /\ UNCHANGED <<tq, peers>>
    /\ UNCHANGED <<sup, procs>>

(* ready() is exhausted: _process_schedule returns *)
SchedEnd ==
    /\ pc \in {"ready", "sched"}
    /\ ~ReadyCond(heap, clock)
    /\ pc' = (IF pc = "ready" THEN "idle"
              ELSE Enter(PhaseAfter("sched"), heap, server))
    /\ UNCHANGED <<heap, order, queue, server, idgen, clock, step, hist,
                   nextId, made, startQueue>>
    /\ UNCHANGED handlers
    /\ UNCHANGED <<tq, peers>>
    /\ UNCHANGED <<sup, procs>>

(* self._proc.close(): Process.close() raises ValueError while the process  *)
(* is running                                                               *)
ProcClose(st) == IF st = "alive" THEN "ValueError" ELSE "ok"

(* _SERVER after AAPIUnLoad: `_SERVER = None` is reached when stop() has    *)
(* returned; when stop() raises, the global keeps the ServerProcess with    *)
(* its queue and its worker                                                 *)
UnLoaded(res) == IF res = "ok" THEN "none" ELSE "kept"

(* AAPIUnLoad: _SERVER.stop(); _SERVER = None.  stop() terminates the       *)
(* worker and joins it for the timeout, within which the worker exits or    *)
(* does not, and then closes the handle.                                   *)
AAPIUnLoad ==
    /\ pc = "idle"
    /\ server = "started"
    /\ \E exits \in BOOLEAN :
        LET res == ProcClose(IF exits THEN "dead" ELSE "alive")
        IN /\ server' = UnLoaded(res)
           /\ queue' = (IF UnLoaded(res) = "none" THEN <<>> ELSE queue)
    /\ UNCHANGED <<heap, order, idgen, pc, clock, step, hist, nextId,
                   made, startQueue>>
    /\ UNCHANGED handlers
    /\ UNCHANGED <<tq, peers>>
    /\ UNCHANGED <<sup, procs>>

(* The API worker: _enqueue puts the dump of an accepted command *)
Enqueue ==
    /\ IsServer(server)
    /\ made < MaxCmds
    /\ \E tpl \in Templates :
        queue' = Append(queue, MkCmd(tpl, nextId))
    /\ made' = made + 1
    /\ nextId' = nextId + 1
    /\ UNCHANGED <<heap, order, server, idgen, pc, clock, step, hist, startQueue>>
    /\ UNCHANGED handlers
    /\ UNCHANGED <<tq, peers>>
    /\ UNCHANGED <<sup, procs>>

Next ==
    \/ AAPILoad
    \/ AAPISimulationReady
    \/ AAPIManage
    \/ IpcRecv
    \/ IpcEmpty
    \/ SchedPop
    \/ SchedEnd
    \/ Enqueue

Spec == Init /\ [][Next]_vars

(* What the client is answered: the body is checked against the input      *)
(* model before the endpoint runs (422); a ValidationError of the command   *)
(* model is raised inside the endpoint (500); otherwise the endpoint        *)
(* returns what _enqueue returns, with the status of its decorator.         *)
Answer(raw) ==
    IF ~HasMandatory(raw)
    THEN [status |-> "UNPROCESSABLE_ENTITY", accepted |-> FALSE]
    ELSE IF ~Validates(raw)
    THEN [status |-> "INTERNAL_SERVER_ERROR", accepted |-> FALSE]
    ELSE [status |-> "ACCEPTED", accepted |-> TRUE]

(* the payload is put twice *)
QueuePutTwice(q, payload) == q \o <<payload, payload>>

(* queue.put(payload) *)
QueuePut(q, payload) == Append(q, payload)

BuildCmd(raw, id) ==
    [id |-> id, parent |-> 0, command |-> raw.command,
     time |-> CmdTime(raw.time), duration |-> raw.duration,
     id_action |-> raw.id_action, ini_time |-> raw.ini_time]

RECURSIVE BuildAll(_, _)
BuildAll(raws, first) ==
    IF raws = <<>> THEN <<>>
    ELSE <<BuildCmd(Head(raws), first)>> \o BuildAll(Tail(raws), first + 1)

(* ScheduleRoot.model_validate(raw) succeeds: every entry of the list does *)
ChunkValid(chunk) == \A k \in DOMAIN chunk : Validates(chunk[k])

(* AppConfig._parse_schedule: each chunk (the inline list, each file) is   *)
(* validated as a whole by _try_insert and inserted in list order; a       *)
(* ValidationError drops the chunk.                                        *)
RECURSIVE ParseSchedule(_, _, _, _)
ParseSchedule(chunks, h, ord, first) ==
    IF chunks = <<>>
    THEN [heap |-> h, order |-> ord, next |-> first, log |-> <<>>]
    ELSE LET chunk == Head(chunks)
             cmds == BuildAll(chunk, first)
             ok == ChunkValid(chunk)
             rest == ParseSchedule(Tail(chunks),
                                   IF ok THEN PushAll(h, ord, cmds) ELSE h,
                                   IF ok THEN ord + Len(cmds) ELSE ord,
                                   first + Len(chunk))
             evs == [k \in DOMAIN chunk |->
                        Ev(IF Validates(chunk[k]) THEN "built" ELSE "reject",
                           cmds[k], "static",
                           IF ok THEN "inserted" ELSE "dropped",
                           cmds[k].time, chunk[k].time, {})]
         IN [rest EXCEPT !.log = evs \o rest.log]

Chunks == UNION {[1..n -> Requests] : n \in 1..MaxCmds}

(* Configurations: no schedule, one chunk, or two chunks *)
Configs ==
    {<<>>} \cup {<<c>> : c \in Chunks}
    \cup {cfg \in {<<c1, c2>> : c1 \in Chunks, c2 \in Chunks} :
            Len(cfg[1]) + Len(cfg[2]) <= MaxCmds}

RECURSIVE Entries(_)
Entries(chunks) ==
    IF chunks = <<>> THEN 0 ELSE Len(Head(chunks)) + Entries(Tail(chunks))

(* from_dict after _parse_schedule: _try_insert has caught every            *)
(* ValidationError and the errors are logged, so the schedule is returned  *)
FromDict(log) == "returned"

(* AAPILoad with a configuration as written: _load() then _SERVER.start();  *)
(* the last event of the load tells how from_dict ended and how many        *)
(* entries were found invalid.                                              *)
LoadConfig ==
    /\ pc = "unloaded"
    /\ \E cfg \in Configs :
        LET r == ParseSchedule(cfg, {}, 0, nextId)
            bad == Cardinality({k \in DOMAIN r.log : r.log[k].ev = "reject"})
        IN /\ heap' = r.heap
           /\ order' = r.order
           /\ nextId' = r.next
           /\ hist' = hist \o r.log
                        \o <<Ev("load", [id |-> 0], "load", FromDict(r.log),
                                0, bad, {})>>
           /\ made' = Entries(cfg)
    /\ server' = "started"
    /\ idgen' = 1
    /\ pc' = "loaded"
    /\ UNCHANGED <<queue, clock, step, startQueue>>
    /\ UNCHANGED handlers
    /\ UNCHANGED <<tq, peers>>
    /\ UNCHANGED <<sup, procs>>

(* A request reaches an endpoint: _as_command builds the command and       *)
(* _enqueue puts its dump; a ValidationError leaves the queue as it is.    *)
(* The event holds the answer in its last field.                           *)
AsCommandEnqueue ==
    /\ server = "started"
    /\ made < MaxCmds
    /\ \E raw \in Requests :
        LET cmd == BuildCmd(raw, nextId)
        IN IF Validates(raw)
           THEN /\ queue' = QueuePut(queue, cmd)
                /\ hist' = Append(hist, Ev("built", cmd, "http", "enqueued",
                                           cmd.time, raw.time, Answer(raw)))
           ELSE /\ queue' = queue
                /\ hist' = Append(hist, Ev("reject", cmd, "http", "dropped",
                                           cmd.time, raw.time, Answer(raw)))
    /\ made' = made + 1
    /\ nextId' = nextId + 1
    /\ UNCHANGED <<heap, order, server, idgen, pc, clock, step, startQueue>>
    /\ UNCHANGED handlers
    /\ UNCHANGED <<tq, peers>>
    /\ UNCHANGED <<sup, procs>>

NextAccept ==
    \/ LoadConfig
    \/ AsCommandEnqueue
    \/ AAPISimulationReady
    \/ AAPIManage
    \/ IpcRecv
    \/ IpcEmpty
    \/ SchedPop
    \/ SchedEnd

SpecAccept == Init /\ [][NextAccept]_vars

----------------------------------------------------------------------------
(* The transport phase from load to unload with messages that are not     *)
(* commands: a short static schedule, so that _process_ipc does not return  *)
(* at `if not _SCHEDULE`, and a queue that holds whatever was put.          *)

(* no schedule, or one command that stays pending until time 2 *)
ShortSchedules == {<<>>, <<Tpl("measure_create", 2, DurNone, 0)>>}

(* AAPILoad with a short static schedule: _load() then _SERVER.start() *)
AAPILoadShort ==
    /\ pc = "unloaded"
    /\ \E tpls \in ShortSchedules :
        LET items == Number(tpls, nextId)
        IN /\ heap' = PushAll({}, 0, items)
           /\ order' = Len(items)
           /\ nextId' = nextId + Len(items)
    /\ server' = "started"
    /\ idgen' = 1
    /\ pc' = "loaded"
    /\ UNCHANGED <<queue, clock, step, hist, startQueue, made>>
    /\ UNCHANGED handlers
    /\ UNCHANGED <<tq, peers>>
    /\ UNCHANGED <<sup, procs>>

(* what can be put on the queue: a message with an unknown discriminator,   *)
(* an incident whose ini_time is not after its time, the dump of a command  *)
(* that has no handler, and the dump of a measure_create                    *)
Payloads ==
    {RawCmd("no_such_command", 0, 0, DurNone),
     RawCmd("incident_create", 1, 1, 1),
     RawCmd("measures_reset", TimeOmitted, 0, DurNone),
     RawCmd("measure_create", TimeOmitted, 0, DurNone)}

(* queue.put(obj) in the worker process: the queue carries any object and   *)
(* try_recv_all hands it out as it is; at most MaxCmds messages are put     *)
QueuePutPayload ==
    /\ IsServer(server)
    /\ made < MaxCmds
    /\ \E raw \in Payloads :
        LET msg == BuildCmd(raw, nextId)
        IN /\ queue' = QueuePut(queue, msg)
           /\ hist' = Append(hist, Ev("put", msg, "raw", "enqueued",
                                      msg.time, raw.time, {}))
    /\ made' = made + 1
    /\ nextId' = nextId + 1
    /\ UNCHANGED <<heap, order, server, idgen, pc, clock, step, startQueue>>
    /\ UNCHANGED handlers
    /\ UNCHANGED <<tq, peers>>
    /\ UNCHANGED <<sup, procs>>

NextIpc ==
    \/ AAPILoadShort
    \/ QueuePutPayload
    \/ AAPISimulationReady
    \/ AAPIManage
    \/ IpcRecv
    \/ IpcEmpty
    \/ SchedPop
    \/ SchedEnd
    \/ AAPIUnLoad

SpecIpc == Init /\ [][NextIpc]_vars


----------------------------------------------------------------------------
(* The Schedule on its own: any pushes, and drains ready(up_to) between    *)
(* them, as test_schedule_sorts_by_time drives it.  step counts the drains, *)
(* clock holds up_to, hist the pushes and the yielded commands.            *)
UpTos == {0, 1, Inf}

(* The Schedule reads only cb.time of what it holds. *)
PushTimes == {IMMEDIATE, 0, 1, 2}

(* entries with each of these times, and one written without a time *)
ScheduleItems ==
    {RawCmd("incidents_reset", t, 0, DurNone) : t \in PushTimes \cup {TimeOmitted}}

SchedulePush ==
    /\ pc = "unloaded"
    /\ made < MaxPush
    /\ \E raw \in ScheduleItems :
        LET cb == BuildCmd(raw, nextId)
        IN /\ heap' = HeapPush(heap, order, cb)
           /\ hist' = Append(hist, Ev("push", cb, "push", "-", cb.time, raw.time, {}))
    /\ order' = order + 1
    /\ nextId' = nextId + 1
    /\ made' = made + 1
    /\ UNCHANGED <<queue, server, idgen, pc, clock, step, startQueue>>
    /\ UNCHANGED handlers
    /\ UNCHANGED <<tq, peers>>
    /\ UNCHANGED <<sup, procs>>

(* ready(up_to) is called: the generator starts *)
ScheduleReady ==
    /\ pc = "unloaded"
    /\ step < MaxClock
    /\ \E up_to \in UpTos : clock' = up_to
    /\ step' = step + 1
    /\ pc' = "draining"
    /\ UNCHANGED <<heap, order, queue, server, idgen, hist, nextId, made, startQueue>>
    /\ UNCHANGED handlers
    /\ UNCHANGED <<tq, peers>>
    /\ UNCHANGED <<sup, procs>>

(* yield heapq.heappop(heap)[2] *)
ScheduleYield ==
    /\ pc = "draining"
    /\ ReadyCond(heap, clock)
    /\ hist' = Append(hist, Ev("yield", HeapTop(heap).cmd, "ready", "-", clock, 0, {}))
    /\ heap' = HeapPop(heap)
    /\ UNCHANGED <<order, queue, server, idgen, pc, clock, step, nextId, made, startQueue>>
    /\ UNCHANGED handlers
    /\ UNCHANGED <<tq, peers>>
    /\ UNCHANGED <<sup, procs>>

(* the while condition is false: the generator is exhausted *)
ScheduleExhausted ==
    /\ pc = "draining"
    /\ ~ReadyCond(heap, clock)
    /\ pc' = "unloaded"
    /\ UNCHANGED <<heap, order, queue, server, idgen, clock, step, hist, nextId, made, startQueue>>
    /\ UNCHANGED handlers
    /\ UNCHANGED <<tq, peers>>
    /\ UNCHANGED <<sup, procs>>

NextSchedule ==
    \/ SchedulePush
    \/ ScheduleReady
    \/ ScheduleYield
    \/ ScheduleExhausted

SpecSchedule == Init /\ [][NextSchedule]_vars

----------------------------------------------------------------------------
(* The handler registry on its own: the decorator register_handler applied  *)
(* in any order, and the lookup _execute makes.  hist holds the             *)
(* registrations and the lookups, made counts them.                        *)
RegKinds == {"measure_create", "incidents_reset"}

(* functions of 0, 2 and 3 parameters *)
RegFns == {Fn("f", 0), Fn("g", 2), Fn("h", 3)}

NoFn == Fn("None", 0)

RegEv(ev, kind, fn, res) == [ev |-> ev, kind |-> kind, fn |-> fn, res |-> res]

(* a kind that has a handler keeps it *)
SetHandlerFirstWins(h, kind, fn) == h @@ (kind :> fn)

(* _HANDLERS[type] = wrapper *)
SetHandler(h, kind, fn) == (kind :> fn) @@ h

InitRegistry ==
    /\ heap = {}
    /\ order = 0
    /\ queue = <<>>
    /\ server = "unset"
    /\ idgen = 1
    /\ pc = "unloaded"
    /\ clock = 0
    /\ step = 0
    /\ hist = <<>>
    /\ nextId = 1
    /\ made = 0
    /\ startQueue = <<>>
    /\ handlers = <<>>
    /\ tq = NoQueue
    /\ peers = NoPeers
    /\ sup = NoSupervisor
    /\ procs = NoProcs

(* @register_handler(kind) applied to fn: more than 2 parameters raise     *)
(* TypeError before the registry is written.                               *)
RegisterHandler ==
    /\ made < MaxPush
    /\ \E kind \in RegKinds, fn \in RegFns :
        IF fn.sig_len <= 2
        THEN /\ handlers' = SetHandler(handlers, kind, fn)
             /\ hist' = Append(hist, RegEv("register", kind, fn, "ok"))
        ELSE /\ handlers' = handlers
             /\ hist' = Append(hist, RegEv("register", kind, fn, "TypeError"))
    /\ made' = made + 1
    /\ UNCHANGED <<heap, order, queue, server, idgen, pc, clock, step, nextId,
                   startQueue>>
    /\ UNCHANGED <<tq, peers>>
    /\ UNCHANGED <<sup, procs>>

(* handler = _HANDLERS.get(cmd.command) *)
GetHandler ==
    /\ made < MaxPush
    /\ \E kind \in RegKinds :
        hist' = Append(hist, RegEv("dispatch", kind,
                                   IF HasHandler(kind) THEN handlers[kind] ELSE NoFn,
                                   "-"))
    /\ made' = made + 1
    /\ UNCHANGED <<heap, order, queue, server, idgen, pc, clock, step, nextId,
                   startQueue, handlers>>
    /\ UNCHANGED <<tq, peers>>
    /\ UNCHANGED <<sup, procs>>

NextRegistry ==
    \/ RegisterHandler
    \/ GetHandler

SpecRegistry == InitRegistry /\ [][NextRegistry]_vars

----------------------------------------------------------------------------
(* Result.from_aimsun on its own: the raw codes the simulation API can      *)
(* return, classified one call after the other; hist holds the calls.      *)

(* AimsunStatus: the members by value *)
AimsunStatus ==
    (0 :> "OK")
    @@ (-8001 :> "INCIDENT_WRONG_INITIME")
    @@ (-8002 :> "INCIDENT_WRONG_POSITION")
    @@ (-8003 :> "INCIDENT_UNKNOWN_LANE")
    @@ (-8004 :> "INCIDENT_UNKNOWN_SECTION")
    @@ (-8005 :> "INCIDENT_NOT_PRESENT")
    @@ (-8006 :> "INCIDENT_WRONG_LENGTH")
    @@ (-8007 :> "INCIDENT_WRONG_DURATION")
    @@ (-5001 :> "INF_NET_GET_MEM")
    @@ (-5002 :> "INF_UNKNOWN_ID")
    @@ (-5003 :> "INF_UNKNOWN_TURNING")
    @@ (-5004 :> "INF_UNKNOWN_FROM_SECTION")
    @@ (-5005 :> "INF_UNKNOWN_TO_SECTION")
    @@ (-5006 :> "INF_NO_PATH")
    @@ (-9999 :> "UNKNOWN_ERROR")
    @@ (-1 :> "API_FAILURE")

(* AimsunStatus.from_code: AimsunStatus(code), and on ValueError           *)
(* UNKNOWN_ERROR if code < 0 else OK                                       *)
from_code(code) ==
    IF code \in DOMAIN AimsunStatus THEN AimsunStatus[code]
    ELSE IF code < 0 THEN "UNKNOWN_ERROR" ELSE "OK"

(* zero counts as a failure *)
SuccessPositive(result) == result > 0

(* success = result >= 0 *)
Success(result) == result >= 0

(* Result.from_aimsun(result); value is <<>> for None *)
from_aimsun(result) ==
    [status |-> IF Success(result) THEN "OK" ELSE from_code(result),
     raw_code |-> result,
     value |-> IF Success(result) THEN <<result>> ELSE <<>>]

(* Result.is_ok *)
is_ok(r) == r.status = "OK"

(* codes in and around the table, and non-negative ones *)
Codes == {-9999, -8008, -8007, -8004, -8001, -8000, -5007, -5006, -5001,
          -5000, -2, -1, 0, 1, 7}

(* a handler turns the code of its API call into a Result *)
FromAimsun ==
    /\ made < MaxPush
    /\ \E code \in Codes :
        hist' = Append(hist, [ev |-> "from_aimsun", code |-> code,
                              result |-> from_aimsun(code)])
    /\ made' = made + 1
    /\ UNCHANGED <<heap, order, queue, server, idgen, pc, clock, step, nextId,
                   startQueue, handlers>>
    /\ UNCHANGED <<tq, peers>>
    /\ UNCHANGED <<sup, procs>>

NextResult == FromAimsun

SpecResult == Init /\ [][NextResult]_vars

----------------------------------------------------------------------------
(* The TconQueue of common/ipc.py with its clients.  The consumer thread    *)
(* makes at most MaxCalls calls; pc is "unloaded" between calls and names   *)
(* the place where the thread waits inside one.  A client that has          *)
(* connected sits in the listener's backlog until accept() takes it, and    *)
(* what it sends is buffered in its connection.  step counts the calls,     *)
(* made the messages sent, hist holds what each call returned.             *)

TqEv(ev, res, value) ==
    [ev |-> ev, res |-> res, value |-> value, step |-> step, gen |-> tq.gen,
     lis |-> tq.listener,
     next |-> LET c == IF tq.conn # 0 THEN tq.conn
                       ELSE IF tq.backlog # <<>> THEN Head(tq.backlog) ELSE 0
              IN IF c # 0 /\ peers[c].buf # <<>> THEN Head(peers[c].buf) ELSE 0,
     eof |-> tq.conn # 0 /\ peers[tq.conn].closed /\ peers[tq.conn].buf = <<>>,
     waiting |-> UNION {{peers[tq.backlog[k]].buf[n] :
                            n \in DOMAIN peers[tq.backlog[k]].buf} :
                        k \in DOMAIN tq.backlog}]

(* self._conn = self._listener.accept(): the oldest client of the backlog *)
Accept(t) == [t EXCEPT !.conn = Head(t.backlog), !.backlog = Tail(t.backlog)]

(* _ensure_connection has to call accept(), and accept() has to wait *)
AcceptWaits(t) == t.conn = 0 /\ t.backlog = <<>>

(* _ensure_connection: returns at once if self._conn is not None *)
EnsureConnection(t) == IF t.conn # 0 THEN t ELSE Accept(t)

(* self._conn.poll(0): data is buffered; or the peer has closed, where the  *)
(* end of the stream is readable on a socket and PeekNamedPipe raises on a  *)
(* pipe; or nothing is there.                                              *)
ConnPoll(p) ==
    IF p.buf # <<>> THEN {"true"}
    ELSE IF p.closed THEN {"true", "raise"}
    ELSE {"false"}

(* the socket file is left as it is *)
CleanupKeeps(artifact) == artifact

(* _cleanup(): the socket file is unlinked if it exists *)
Cleanup(artifact) == FALSE

(* start() of an instance that has not been started: _cleanup(), then the   *)
(* Listener binds the address, which fails while the socket file exists     *)
TqStart ==
    /\ pc = "unloaded"
    /\ tq.listener = "none"
    /\ IF Cleanup(tq.artifact)
       THEN /\ hist' = Append(hist, TqEv("start", "OSError", 0))
            /\ UNCHANGED tq
       ELSE /\ hist' = Append(hist, TqEv("start", "ok", 0))
            /\ tq' = [tq EXCEPT !.listener = "open", !.artifact = TRUE]
    /\ UNCHANGED <<heap, order, queue, server, idgen, pc, clock, step,
                   nextId, made, startQueue, handlers, peers>>
    /\ UNCHANGED <<sup, procs>>

(* the clients of an endpoint that is gone have lost their connection *)
Disconnected(ps) ==
    [c \in DOMAIN ps |->
        IF ps[c].st = "connected" THEN [ps[c] EXCEPT !.st = "lost"] ELSE ps[c]]

(* the process that holds a started TconQueue dies: nothing is closed or    *)
(* unlinked, and the next instance is constructed under the same name;      *)
(* step counts this with the calls                                          *)
TqCrash ==
    /\ pc = "unloaded"
    /\ tq.listener = "open"
    /\ step < MaxCalls
    /\ step' = step + 1
    /\ tq' = [NoQueue EXCEPT !.artifact = tq.artifact, !.gen = tq.gen + 1]
    /\ peers' = Disconnected(peers)
    /\ UNCHANGED <<heap, order, queue, server, idgen, pc, clock, hist,
                   nextId, made, startQueue, handlers>>
    /\ UNCHANGED <<sup, procs>>

(* close() without the cleanup *)
CloseKeepsFile(t) ==
    [t EXCEPT !.connClosed = (t.conn # 0),
              !.listener = IF t.listener = "none" THEN "none" ELSE "closed",
              !.backlog = <<>>]

(* close(): the connection and the listener are closed if they are set,     *)
(* each with OSError suppressed, and _cleanup() runs; the attributes keep    *)
(* the closed objects                                                       *)
Close(t) ==
    [t EXCEPT !.connClosed = (t.conn # 0),
              !.listener = IF t.listener = "none" THEN "none" ELSE "closed",
              !.backlog = <<>>,
              !.artifact = Cleanup(t.artifact)]

(* close() is called, in any state of the instance *)
TqClose ==
    /\ pc = "unloaded"
    /\ step < MaxCalls
    /\ step' = step + 1
    /\ tq' = Close(tq)
    /\ peers' = Disconnected(peers)
    /\ hist' = Append(hist, TqEv("close", "ok",
                                 [listener |-> Close(tq).listener,
                                  artifact |-> Close(tq).artifact,
                                  connOpen |-> Close(tq).conn # 0
                                               /\ ~Close(tq).connClosed]))
    /\ UNCHANGED <<heap, order, queue, server, idgen, pc, clock,
                   nextId, made, startQueue, handlers>>
    /\ UNCHANGED <<sup, procs>>

(* the rest of poll() once a connection is there *)
PollReturn ==
    LET t == EnsureConnection(tq)
    IN /\ tq' = t
       /\ \E r \in ConnPoll(peers[t.conn]) :
            hist' = Append(hist, TqEv("poll", r, 0))
       /\ pc' = "unloaded"

(* poll() is called *)
Poll ==
    /\ pc = "unloaded"
    /\ tq.listener = "open"
    /\ step < MaxCalls
    /\ step' = step + 1
    /\ IF AcceptWaits(tq)
       THEN /\ pc' = "poll_accept"
            /\ UNCHANGED <<tq, hist>>
       ELSE PollReturn
    /\ UNCHANGED <<heap, order, queue, server, idgen, clock, nextId, made,
                   startQueue, handlers, peers>>
    /\ UNCHANGED <<sup, procs>>

(* a client has connected: accept() inside poll() returns *)
PollAccepted ==
    /\ pc = "poll_accept"
    /\ ~AcceptWaits(tq)
    /\ PollReturn
    /\ UNCHANGED <<heap, order, queue, server, idgen, clock, step, nextId, made,
                   startQueue, handlers, peers>>
    /\ UNCHANGED <<sup, procs>>

(* the rest of recv() once a connection is there: self._conn.recv() gives  *)
(* the next message, raises EOFError at the end of the stream, or waits.   *)
RecvReturn ==
    LET t == EnsureConnection(tq)
        p == peers[t.conn]
    IN /\ tq' = t
       /\ IF p.buf # <<>>
          THEN /\ peers' = [peers EXCEPT ![t.conn].buf = Tail(p.buf)]
               /\ hist' = Append(hist, TqEv("recv", "msg", Head(p.buf)))
               /\ pc' = "unloaded"
          ELSE IF p.closed
          THEN /\ hist' = Append(hist, TqEv("recv", "EOFError", 0))
               /\ pc' = "unloaded"
               /\ UNCHANGED peers
          ELSE /\ pc' = "recv_wait"
               /\ UNCHANGED <<hist, peers>>

(* recv() is called *)
Recv ==
    /\ pc = "unloaded"
    /\ tq.listener = "open"
    /\ step < MaxCalls
    /\ step' = step + 1
    /\ IF AcceptWaits(tq)
       THEN /\ pc' = "recv_accept"
            /\ UNCHANGED <<tq, hist, peers>>
       ELSE RecvReturn
    /\ UNCHANGED <<heap, order, queue, server, idgen, clock, nextId, made,
                   startQueue, handlers>>
    /\ UNCHANGED <<sup, procs>>

(* what recv() waited for has happened: a client connected, or the peer    *)
(* sent or closed                                                          *)
RecvResumed ==
    /\ \/ pc = "recv_accept" /\ ~AcceptWaits(tq)
       \/ /\ pc = "recv_wait"
          /\ peers[tq.conn].buf # <<>> \/ peers[tq.conn].closed
    /\ RecvReturn
    /\ UNCHANGED <<heap, order, queue, server, idgen, clock, step, nextId, made,
                   startQueue, handlers>>
    /\ UNCHANGED <<sup, procs>>

(* ServerProcess.try_recv_all() is called and iterated *)
TryRecvAll ==
    /\ pc = "unloaded"
    /\ tq.listener = "open"
    /\ step < MaxCalls
    /\ step' = step + 1
    /\ pc' = "drain"
    /\ UNCHANGED <<heap, order, queue, server, idgen, clock, hist, nextId, made,
                   startQueue, handlers, tq, peers>>
    /\ UNCHANGED <<sup, procs>>

(* one turn of `while self._queue.poll(): yield self._queue.recv()` *)
DrainStep ==
    /\ pc = "drain"
    /\ IF AcceptWaits(tq)
       THEN /\ pc' = "drain_accept"
            /\ UNCHANGED <<tq, hist, peers>>
       ELSE LET t == EnsureConnection(tq)
                p == peers[t.conn]
            IN /\ tq' = t
               /\ \E r \in ConnPoll(p) :
                    CASE r = "false" ->
                            /\ hist' = Append(hist, TqEv("drain", "end", 0))
                            /\ pc' = "unloaded"
                            /\ UNCHANGED peers
                      [] r = "raise" ->
                            /\ hist' = Append(hist, TqEv("drain", "raise", 0))
                            /\ pc' = "unloaded"
                            /\ UNCHANGED peers
                      [] r = "true" /\ p.buf # <<>> ->
                            /\ peers' = [peers EXCEPT ![t.conn].buf = Tail(p.buf)]
                            /\ hist' = Append(hist, TqEv("drain", "msg", Head(p.buf)))
                            /\ pc' = "drain"
                      [] r = "true" /\ p.buf = <<>> ->
                            /\ hist' = Append(hist, TqEv("drain", "EOFError", 0))
                            /\ pc' = "unloaded"
                            /\ UNCHANGED peers
    /\ UNCHANGED <<heap, order, queue, server, idgen, clock, step, nextId, made,
                   startQueue, handlers>>
    /\ UNCHANGED <<sup, procs>>

(* a client has connected: accept() inside try_recv_all() returns *)
DrainAccepted ==
    /\ pc = "drain_accept"
    /\ ~AcceptWaits(tq)
    /\ tq' = Accept(tq)
    /\ pc' = "drain"
    /\ UNCHANGED <<heap, order, queue, server, idgen, clock, step, hist, nextId,
                   made, startQueue, handlers, peers>>
    /\ UNCHANGED <<sup, procs>>

(* take_client(): a client connects to the address; the clients are        *)
(* numbered in the order in which they connect.                            *)
PeerConnect ==
    /\ tq.listener = "open"
    /\ \E c \in DOMAIN peers :
        /\ peers[c].st = "new"
        /\ \A b \in 1..(c - 1) : peers[b].st # "new"
        /\ peers' = [peers EXCEPT ![c].st = "connected"]
        /\ tq' = [tq EXCEPT !.backlog = Append(@, c)]
    /\ UNCHANGED <<heap, order, queue, server, idgen, pc, clock, step, hist,
                   nextId, made, startQueue, handlers>>
    /\ UNCHANGED <<sup, procs>>

(* a connected client sends one message *)
PeerSend ==
    /\ made < MaxCmds
    /\ \E c \in DOMAIN peers :
        /\ peers[c].st = "connected" /\ ~peers[c].closed
        /\ peers' = [peers EXCEPT ![c].buf = Append(@, nextId)]
    /\ nextId' = nextId + 1
    /\ made' = made + 1
    /\ UNCHANGED <<heap, order, queue, server, idgen, pc, clock, step, hist,
                   startQueue, handlers, tq>>
    /\ UNCHANGED <<sup, procs>>

(* a connected client closes its end *)
PeerClose ==
    /\ \E c \in DOMAIN peers :
        /\ peers[c].st = "connected" /\ ~peers[c].closed
        /\ peers' = [peers EXCEPT ![c].closed = TRUE]
    /\ UNCHANGED <<heap, order, queue, server, idgen, pc, clock, step, hist,
                   nextId, made, startQueue, handlers, tq>>
    /\ UNCHANGED <<sup, procs>>

NextTransport ==
    \/ TqStart
    \/ TqCrash
    \/ TqClose
    \/ Poll
    \/ PollAccepted
    \/ Recv
    \/ RecvResumed
    \/ TryRecvAll
    \/ DrainStep
    \/ DrainAccepted
    \/ PeerConnect
    \/ PeerSend
    \/ PeerClose

SpecTransport == Init /\ [][NextTransport]_vars

----------------------------------------------------------------------------
(* The ServerProcess of server/ipc.py with the worker processes it spawns.  *)
(* The host thread makes at most MaxOps calls of start(), stop() and        *)
(* try_recv_all(); step counts them.  A worker puts messages on the queue:  *)
(* put() leaves them with the feeder thread, which writes them to the pipe  *)
(* the host reads.  A worker can be killed from outside at any time.  hist  *)
(* holds what each call did.                                                *)

SupRest ==
    <<heap, order, queue, server, idgen, pc, clock, handlers, startQueue,
      tq, peers>>

IsAlive(p) == p # 0 /\ procs[p].st = "alive"

SupEv(ev, res, value) ==
    [ev |-> ev, res |-> res, value |-> value, step |-> step, inst |-> sup.inst,
     proc |-> sup.proc, alive |-> IsAlive(sup.proc)]

(* mp.Process(...).start(): the next process of the system comes to life *)
Spawn(ps, p, inst) == [ps EXCEPT ![p] = [st |-> "alive", inst |-> inst]]

(* start(): a process is created and started, the handle is overwritten *)
SupStart ==
    /\ sup.at = "idle"
    /\ sup.queue = "open"
    /\ step < MaxOps
    /\ step' = step + 1
    /\ \E p \in DOMAIN procs :
        /\ procs[p].st = "unborn"
        /\ \A b \in 1..(p - 1) : procs[b].st # "unborn"
        /\ procs' = Spawn(procs, p, sup.inst)
        /\ sup' = [sup EXCEPT !.proc = p]
        /\ hist' = Append(hist, SupEv("start", "ok", p))
    /\ UNCHANGED <<nextId, made>>
    /\ UNCHANGED SupRest

(* the end of stop(): no handle, no queue; the variant of common/ipc.py     *)
(* also clears and drops its flag                                           *)
Released(s) ==
    [s EXCEPT !.proc = 0, !.queue = "none", !.pipe = <<>>, !.feeder = <<>>,
              !.notify = "none"]

(* stop(timeout): terminate() and join(timeout) if the handle is alive,     *)
(* where the worker exits within the timeout or does not; then              *)
(* self._proc.close(), which fails on None and on a running process, and    *)
(* only after it the handle and the queue are dropped.                      *)
SupStop ==
    /\ sup.at = "idle"
    /\ step < MaxOps
    /\ step' = step + 1
    /\ IF sup.proc = 0
       THEN /\ hist' = Append(hist, SupEv("stop", "AttributeError",
                                          [timeout |-> FALSE, proc |-> sup.proc,
                                           queue |-> sup.queue]))
            /\ UNCHANGED <<sup, procs>>
       ELSE \E exits \in (IF IsAlive(sup.proc) THEN BOOLEAN ELSE {TRUE}) :
            LET st == IF exits THEN "dead" ELSE procs[sup.proc].st
                res == ProcClose(st)
                after == IF res = "ok" THEN Released(sup) ELSE sup
            IN /\ procs' = [procs EXCEPT ![sup.proc].st = st]
               /\ sup' = after
               /\ hist' = Append(hist, SupEv("stop", res,
                                             [timeout |-> ~exits,
                                              proc |-> after.proc,
                                              queue |-> after.queue]))
    /\ UNCHANGED <<nextId, made>>
    /\ UNCHANGED SupRest

(* try_recv_all() is called and its iteration begins *)
SupTryRecvAll ==
    /\ sup.at = "idle"
    /\ sup.queue = "open"
    /\ step < MaxOps
    /\ step' = step + 1
    /\ sup' = [sup EXCEPT !.at = "drain"]
    /\ UNCHANGED <<hist, nextId, made, procs>>
    /\ UNCHANGED SupRest

(* yield self.queue.get_nowait() *)
SupYield ==
    /\ sup.at = "drain"
    /\ sup.pipe # <<>>
    /\ sup' = [sup EXCEPT !.pipe = get_nowait(sup.pipe).rest]
    /\ hist' = Append(hist, SupEv("yield", "msg", get_nowait(sup.pipe).msg))
    /\ UNCHANGED <<step, nextId, made, procs>>
    /\ UNCHANGED SupRest

(* get_nowait() raises Empty: break *)
SupDrainEnd ==
    /\ sup.at = "drain"
    /\ sup.pipe = <<>>
    /\ sup' = [sup EXCEPT !.at = "idle"]
    /\ hist' = Append(hist, SupEv("end", "ok", 0))
    /\ UNCHANGED <<step, nextId, made, procs>>
    /\ UNCHANGED SupRest

(* _enqueue in a worker of this ServerProcess: queue.put(...) and nothing   *)
(* else; the message is left with the feeder thread                         *)
WorkerPut ==
    /\ made < MaxCmds
    /\ sup.queue = "open"
    /\ \E p \in DOMAIN procs : procs[p].st = "alive" /\ procs[p].inst = sup.inst
    /\ sup' = [sup EXCEPT !.feeder = Append(@, nextId)]
    /\ nextId' = nextId + 1
    /\ made' = made + 1
    /\ UNCHANGED <<step, hist, procs>>
    /\ UNCHANGED SupRest

(* the feeder thread writes the oldest message it holds to the pipe *)
FeederFlush ==
    /\ sup.queue = "open"
    /\ sup.feeder # <<>>
    /\ sup' = [sup EXCEPT !.feeder = Tail(@), !.pipe = Append(@, Head(sup.feeder))]
    /\ hist' = Append(hist, SupEv("fed", "ok", Head(sup.feeder)))
    /\ UNCHANGED <<step, nextId, made, procs>>
    /\ UNCHANGED SupRest

(* a worker is killed or exits *)
WorkerKill ==
    /\ \E p \in DOMAIN procs :
        /\ procs[p].st = "alive"
        /\ procs' = [procs EXCEPT ![p].st = "dead"]
    /\ UNCHANGED <<step, hist, nextId, made, sup>>
    /\ UNCHANGED SupRest

(* ServerProcess(...): another instance is constructed and used from now on *)
NewServerProcess ==
    /\ sup.at = "idle"
    /\ sup.inst < MaxWorkers
    /\ sup' = [NoSupervisor EXCEPT !.inst = sup.inst + 1]
    /\ UNCHANGED <<step, hist, nextId, made, procs>>
    /\ UNCHANGED SupRest

NextSupervisor ==
    \/ SupStart
    \/ SupStop
    \/ SupTryRecvAll
    \/ SupYield
    \/ SupDrainEnd
    \/ WorkerPut
    \/ FeederFlush
    \/ WorkerKill
    \/ NewServerProcess

SpecSupervisor == Init /\ [][NextSupervisor]_vars

----------------------------------------------------------------------------
(* Claims *)

IsCreate(i) == hist[i].ev = "exec" /\ hist[i].cmd.command = "measure_create"

(* the removals pushed on behalf of the command executed at hist[i] *)
RemovalsOf(i) ==
    {j \in Pushes : hist[j].via = "auto" /\ hist[j].cmd.parent = hist[i].cmd.id}

(* C1: a drain ready(up_to) yields in non-decreasing time order, equal     *)
(* times in push order (ids follow the push order); and when up_to is at    *)
(* least every pushed time, the exhausted drain has yielded every pushed    *)
(* command.                                                                *)
C1_Ordering ==
    /\ \A i, j \in Yields :
        (i < j /\ hist[i].step = hist[j].step) =>
            \/ hist[i].cmd.time < hist[j].cmd.time
            \/ /\ hist[i].cmd.time = hist[j].cmd.time
               /\ hist[i].cmd.id < hist[j].cmd.id
    /\ (/\ pc = "draining"
        /\ ~ReadyCond(heap, clock)
        /\ \A i \in Pushes : hist[i].cmd.time <= clock)
        => \A i \in Pushes : \E j \in Yields : hist[j].cmd = hist[i].cmd

(* C1 witness: one drain has yielded three commands, two of equal time in  *)
(* push order and one pushed first but yielded last.                       *)
C1_Witness ==
    /\ pc = "draining"
    /\ ~ReadyCond(heap, clock)
    /\ heap = {}
    /\ \E i, j, k \in Yields :
        /\ i < j /\ j < k
        /\ hist[i].step = step /\ hist[j].step = step /\ hist[k].step = step
        /\ hist[i].cmd.time = hist[j].cmd.time
        /\ hist[k].cmd.time > hist[j].cmd.time
        /\ hist[k].cmd.id < hist[i].cmd.id

(* C2: no command is handed to the Dispatcher twice: executions have        *)
(* distinct commands, an executed command is no longer in the Schedule, and *)
(* a drained message is neither in the queue nor drained a second time.    *)
C2_AtMostOnce ==
    /\ \A i, j \in Execs : i # j => hist[i].cmd.id # hist[j].cmd.id
    /\ \A i \in Execs : \A e \in heap : e.cmd.id # hist[i].cmd.id
    /\ \A i \in DOMAIN hist : hist[i].via = "ipc" =>
        /\ \A k \in DOMAIN queue : queue[k].id # hist[i].cmd.id
        /\ \A j \in DOMAIN hist :
            (j # i /\ hist[j].via = "ipc") => hist[j].cmd.id # hist[i].cmd.id

(* C2 witness: a static command, a received command and an auto-generated  *)
(* removal have all been executed.                                         *)
C2_Witness ==
    \E i, j, k \in Execs :
        /\ hist[i].via = "ipc"
        /\ hist[j].via = "sched" /\ hist[j].cmd.parent = 0
        /\ hist[k].cmd.parent # 0

(* C3: every execution happens in a step whose clock is at least the       *)
(* command's time.                                                         *)
C3_NotEarly == \A i \in Execs : hist[i].cmd.time <= hist[i].clock

(* C3 witness: a removal generated with a time in the future has been      *)
(* executed by a later step, and a received command was executed directly.  *)
C3_Witness ==
    \E i, j, k \in Execs :
        /\ hist[i].cmd.parent = hist[j].cmd.id
        /\ hist[i].step > hist[j].step
        /\ hist[i].cmd.time > hist[j].clock
        /\ hist[k].via = "ipc"

(* C4: when AAPIManage(t) has returned, no entry of the Schedule has       *)
(* time <= t.                                                              *)
C4_NothingDueLeft ==
    (pc = "idle" /\ step >= 1) => \A e \in heap : e.time > clock

(* C4 witness: a step has returned with entries left for later, after it    *)
(* executed a received measure_create and, in the same step, the removal    *)
(* that command pushed.                                                    *)
C4_Witness ==
    /\ pc = "idle" /\ step >= 1 /\ heap # {}
    /\ \E i, j \in Execs :
        /\ hist[i].via = "ipc" /\ hist[i].step = step
        /\ hist[j].cmd.parent = hist[i].cmd.id /\ hist[j].step = step

(* C5 as claimed: within a step, every execution from the Schedule comes    *)
(* before every message taken from the Transport.                          *)
C5_ScheduleFirst ==
    \A i, j \in DOMAIN hist :
        (/\ hist[i].step = hist[j].step
         /\ hist[i].ev = "exec" /\ hist[i].via = "sched"
         /\ hist[j].via = "ipc") => i < j

(* C5 amended: within a step, every message taken from the Transport is    *)
(* executed or pushed before any entry of the Schedule is executed.        *)
C5_TransportFirst ==
    \A i, j \in DOMAIN hist :
        (/\ hist[i].step = hist[j].step
         /\ hist[i].ev = "exec" /\ hist[i].via = "sched"
         /\ hist[j].via = "ipc") => j < i

(* C5 witness: one step has handled a message and executed an entry that   *)
(* was in the Schedule before the step began.                              *)
C5_Witness ==
    \E i, j \in DOMAIN hist :
        /\ hist[i].step = hist[j].step
        /\ hist[i].ev = "exec" /\ hist[i].via = "sched"
        /\ hist[i].cmd.parent = 0
        /\ hist[j].via = "ipc"

C7_DrainsEveryStep ==
    (/\ server = "started"
     /\ step >= 1
     /\ pc \in {"sched", "idle"})
        => \A k \in DOMAIN startQueue : \A n \in DOMAIN queue :
            queue[n].id # startQueue[k].id

(* C8: when a step has returned, every command that was still due when an   *)
(* execution of that step failed has been executed later in the same step,  *)
(* and the executions from the Schedule are in time order.                 *)
C8_Isolation ==
    pc = "idle" =>
        /\ \A i \in Execs : hist[i].res \in {"err", "raise"} =>
            \A id \in hist[i].rest : \E j \in Execs :
                /\ j > i
                /\ hist[j].cmd.id = id
                /\ hist[j].step = hist[i].step
        /\ \A i, j \in Execs :
            (/\ i < j /\ hist[i].step = hist[j].step
             /\ hist[i].via = "sched" /\ hist[j].via = "sched")
                => hist[i].cmd.time <= hist[j].cmd.time

(* C8 witness: a handler raised while two more commands were due in the    *)
(* step, and a command due after it was executed with outcome ok.          *)
C8_Witness ==
    /\ pc = "idle"
    /\ \E i, j \in Execs :
        /\ hist[i].res = "raise"
        /\ j > i
        /\ hist[j].cmd.id \in hist[i].rest
        /\ hist[j].res = "ok"

(* C9: a measure_create with duration d > 0 whose handler returned ok with  *)
(* start s has pushed exactly one command: a measure_remove with time       *)
(* s + d and the action id of the measure, which is in the Schedule until   *)
(* it is executed.                                                         *)
C9_AutoRemoval ==
    \A i \in Execs :
        (IsCreate(i) /\ hist[i].res = "ok" /\ hist[i].cmd.duration > 0) =>
            /\ Cardinality(RemovalsOf(i)) = 1
            /\ \A j \in RemovalsOf(i) :
                /\ hist[j].cmd.command = "measure_remove"
                /\ hist[j].cmd.time = hist[i].at + hist[i].cmd.duration
                /\ hist[j].cmd.id_action = hist[i].value
                /\ hist[i].cmd.id_action # 0 =>
                     hist[j].cmd.id_action = hist[i].cmd.id_action
                /\ hist[j].step = hist[i].step
                /\ \/ \E e \in heap : e.cmd = hist[j].cmd /\ e.time = hist[j].cmd.time
                   \/ \E k \in Execs : hist[k].cmd = hist[j].cmd

(* C9 witness: a measure_create executed directly from the Transport and    *)
(* one popped from the Schedule have each pushed their removal.            *)
C9_Witness ==
    \E i, j \in Execs :
        /\ IsCreate(i) /\ hist[i].via = "ipc" /\ RemovalsOf(i) # {}
        /\ IsCreate(j) /\ hist[j].via = "sched" /\ RemovalsOf(j) # {}
        /\ hist[j].cmd.id_action # 0

(* C10: for a measure_create that is IMMEDIATE or whose time is already     *)
(* past when it executes at clock t, the removal is scheduled at            *)
(* t + duration.                                                           *)
C10_EffectiveStart ==
    \A i \in Execs :
        (/\ IsCreate(i) /\ hist[i].res = "ok" /\ hist[i].cmd.duration > 0
         /\ (hist[i].cmd.time = IMMEDIATE \/ hist[i].cmd.time < hist[i].clock))
            => \A j \in RemovalsOf(i) :
                hist[j].cmd.time = hist[i].clock + hist[i].cmd.duration

(* the history records the step under way has appended *)
Appended == (DOMAIN hist') \ (DOMAIN hist)

(* C12: executing a measure_create that fails (error Result or exception),  *)
(* or that succeeds with no duration or a duration <= 0, pushes nothing:    *)
(* the Schedule gains no entry and its insertion counter does not move.    *)
C12_NoRemoval ==
    [][\A i \in Appended :
        (/\ hist'[i].ev = "exec"
         /\ hist'[i].cmd.command = "measure_create"
         /\ \/ hist'[i].res # "ok"
            \/ hist'[i].cmd.duration = DurNone
            \/ hist'[i].cmd.duration <= 0)
        => /\ heap' \subseteq heap
           /\ order' = order
           /\ \A j \in Appended : hist'[j].ev # "push"]_vars

(* C12 witness: a measure_create with a positive duration has failed, and   *)
(* one with a negative duration has succeeded, one of them popped from the  *)
(* Schedule.                                                               *)
C12_Witness ==
    \E i, j \in Execs :
        /\ IsCreate(i) /\ hist[i].res \in {"err", "raise"} /\ hist[i].cmd.duration > 0
        /\ IsCreate(j) /\ hist[j].res = "ok" /\ hist[j].cmd.duration <= 0
        /\ "sched" \in {hist[i].via, hist[j].via}

(* C17: executing a command whose kind has no handler runs no handler,      *)
(* leaves the Schedule and the id generator as they are, and every command  *)
(* that was still due then has been executed when the step returns.        *)
C17_MissingHandler ==
    /\ [][\A i \in Appended :
            (hist'[i].ev = "exec" /\ hist'[i].cmd.command \notin DOMAIN handlers)
            => /\ hist'[i].res = "nohandler"
               /\ heap' \subseteq heap
               /\ order' = order
               /\ idgen' = idgen]_vars
    /\ [](pc = "idle" =>
            \A i \in Execs : hist[i].cmd.command \notin DOMAIN handlers =>
                \A id \in hist[i].rest : \E j \in Execs :
                    /\ j > i
                    /\ hist[j].cmd.id = id
                    /\ hist[j].step = hist[i].step)

(* C17 witness: a step has returned in which a command without handler was  *)
(* popped while another command was due, and that command's handler ran.   *)
C17_Witness ==
    /\ pc = "idle"
    /\ \E i, j \in Execs :
        /\ hist[i].res = "nohandler" /\ hist[i].via = "sched"
        /\ j > i
        /\ hist[j].cmd.id \in hist[i].rest
        /\ hist[j].res \in {"ok", "err"}

Built == {i \in DOMAIN hist : hist[i].ev = "built"}
Rejected == {i \in DOMAIN hist : hist[i].ev = "reject"}

(* the schedule time an entry written with raw_time stands for *)
TimeWritten(raw_time) == IF raw_time = TimeOmitted THEN -1 ELSE raw_time

IsIncident(i) == hist[i].cmd.command = "incident_create"

C13_IniAfterTime ==
    /\ \A i \in Built \cup Rejected : IsIncident(i) =>
        (hist[i].ev = "built" <=> hist[i].cmd.ini_time > TimeWritten(hist[i].value))
    /\ \A i \in Rejected :
        /\ \A e \in heap : e.cmd.id # hist[i].cmd.id
        /\ \A k \in DOMAIN queue : queue[k].id # hist[i].cmd.id
        /\ \A j \in Execs \cup Pushes : hist[j].cmd.id # hist[i].cmd.id
    /\ \A i \in Execs : IsIncident(i) => hist[i].res \in {"ok", "err"}
    /\ (pc = "idle" /\ step >= 1) =>
        \A e \in heap : e.cmd.command = "incident_create" => e.time > clock

(* C13 witness: incident_create entries with ini_time below and equal to    *)
(* the time were rejected, and an accepted one was executed from the        *)
(* Schedule in a step whose clock had reached its ini_time.                *)
C13_Witness ==
    /\ \E i \in Rejected : IsIncident(i) /\ hist[i].cmd.ini_time = hist[i].cmd.time
    /\ \E i \in Execs :
        /\ IsIncident(i) /\ hist[i].via = "sched"
        /\ hist[i].cmd.ini_time <= hist[i].clock

(* C14: every command that was built, and so every command queued,          *)
(* scheduled or executed, has time >= 0 or time = IMMEDIATE.               *)
C14_TimeDomain ==
    /\ \A i \in Built \cup Execs \cup Pushes :
        hist[i].cmd.time >= 0 \/ hist[i].cmd.time = IMMEDIATE
    /\ \A e \in heap : e.time >= 0 \/ e.time = IMMEDIATE
    /\ \A k \in DOMAIN queue : queue[k].time >= 0 \/ queue[k].time = IMMEDIATE

(* C15: a command built from an entry without a time has time IMMEDIATE,    *)
(* and when a drain ready(t) with t >= 0 is exhausted every command pushed  *)
(* with time IMMEDIATE has been yielded.                                   *)
C15_Immediate ==
    /\ [](\A i \in Pushes :
            hist[i].value = TimeOmitted => hist[i].cmd.time = IMMEDIATE)
    /\ [][(pc = "draining" /\ pc' # "draining" /\ clock >= 0) =>
            /\ \A e \in heap' : e.time # IMMEDIATE
            /\ \A i \in Pushes : hist[i].cmd.time = IMMEDIATE =>
                \E j \in Yields : hist[j].cmd = hist[i].cmd]_vars

(* C15 witness: a command written without a time was yielded by ready(0),   *)
(* and one pushed with IMMEDIATE by a drain with a later bound.            *)
C15_Witness ==
    \E i, j \in Yields, k \in Pushes :
        /\ hist[k].value = TimeOmitted /\ hist[k].cmd = hist[i].cmd
        /\ hist[i].at = 0
        /\ hist[j].cmd.time = IMMEDIATE /\ hist[j].at > 0

(* the registrations of kind that went through before position d *)
RegsBefore(kind, d) ==
    {i \in 1..(d - 1) : /\ hist[i].ev = "register" /\ hist[i].kind = kind
                        /\ hist[i].res = "ok"}

Dispatches == {i \in DOMAIN hist : hist[i].ev = "dispatch"}

(* C16 as claimed: the handler a lookup gives is the first one registered   *)
(* for the kind.                                                           *)
C16_FirstWins ==
    \A d \in Dispatches :
        \A i \in RegsBefore(hist[d].kind, d) :
            (\A j \in RegsBefore(hist[d].kind, d) : i <= j) => hist[d].fn = hist[i].fn

(* C16 amended: the handler a lookup gives is the last one registered for   *)
(* the kind (none when nothing was registered); a registration that raises  *)
(* TypeError registers nothing.                                            *)
C16_LastWins ==
    \A d \in Dispatches :
        /\ RegsBefore(hist[d].kind, d) = {} => hist[d].fn = NoFn
        /\ \A i \in RegsBefore(hist[d].kind, d) :
            (\A j \in RegsBefore(hist[d].kind, d) : j <= i) => hist[d].fn = hist[i].fn

(* C16 witness: a kind was registered with one function, then with         *)
(* another, and then looked up.                                            *)
C16_Witness ==
    \E d \in Dispatches : \E i, j \in RegsBefore(hist[d].kind, d) :
        i < j /\ hist[i].fn # hist[j].fn

(* the negative codes of the fixed table *)
TableCodes == (-8007..-8001) \cup (-5006..-5001) \cup {-9999, -1}

(* C18: from_aimsun(code) is Ok with value code iff code >= 0; for a        *)
(* negative code it carries no value and raw_code = code, its status is     *)
(* the table's own kind for a code of the table (distinct codes giving      *)
(* distinct kinds) and UNKNOWN_ERROR for every other negative code.        *)
C18_FromAimsun ==
    \A i \in DOMAIN hist :
        LET c == hist[i].code
            r == hist[i].result
        IN /\ is_ok(r) <=> c >= 0
           /\ r.raw_code = c
           /\ c >= 0 => r.value = <<c>>
           /\ c < 0 => r.value = <<>>
           /\ (c < 0 /\ c \notin TableCodes) => r.status = "UNKNOWN_ERROR"
           /\ (c \in TableCodes /\ c # -9999) => r.status \notin {"OK", "UNKNOWN_ERROR"}
           /\ c = -8001 => r.status = "INCIDENT_WRONG_INITIME"
           /\ c = -5006 => r.status = "INF_NO_PATH"
           /\ c = -1 => r.status = "API_FAILURE"
           /\ \A j \in DOMAIN hist :
                (/\ c \in TableCodes /\ hist[j].code \in TableCodes
                 /\ hist[j].code # c) => hist[j].result.status # r.status

(* C18 witness: the code 0, a code of the table and a negative code outside *)
(* the table have been classified.                                         *)
C18_Witness ==
    \E i, j, k \in DOMAIN hist :
        /\ hist[i].code = 0 /\ is_ok(hist[i].result)
        /\ hist[j].code \in TableCodes /\ hist[j].code # -9999
        /\ hist[k].code < 0 /\ hist[k].code \notin TableCodes

(* C19: the consumer thread never waits inside poll() or try_recv_all():    *)
(* it is never in accept() on behalf of either.                            *)
C19_NeverBlocks == pc \notin {"poll_accept", "drain_accept"}

(* C20: no call of poll() or recv() raises; and when the connected peer has *)
(* closed with nothing left to read while a later client waits with a       *)
(* message, poll() reports true and recv() returns that client's message.  *)
C20_Reconnect ==
    \A i \in DOMAIN hist : hist[i].ev \in {"poll", "recv"} =>
        /\ hist[i].res \notin {"raise", "EOFError"}
        /\ (hist[i].eof /\ hist[i].waiting # {}) =>
            /\ hist[i].ev = "poll" => hist[i].res = "true"
            /\ hist[i].ev = "recv" =>
                hist[i].res = "msg" /\ hist[i].value \in hist[i].waiting

SupEvents(kind) == {i \in DOMAIN hist : hist[i].ev = kind}

TqEvents(kind) == {i \in DOMAIN hist : hist[i].ev = kind}

(* C22: start() of a new TconQueue under the name of an instance that went  *)
(* away without close() unlinks the socket file left behind and binds:      *)
(* every start() succeeds, an open listener has its socket file, and a      *)
(* receive of the new instance returns the message its client has sent.     *)
C22_CrashTolerance ==
    /\ \A i \in TqEvents("start") : hist[i].res = "ok"
    /\ tq.listener = "open" => tq.artifact
    /\ \A i \in TqEvents("recv") \cup TqEvents("drain") :
        (hist[i].gen > 1 /\ hist[i].next # 0)
            => hist[i].res = "msg" /\ hist[i].value = hist[i].next
    /\ \A i \in TqEvents("poll") :
        (hist[i].gen > 1 /\ hist[i].next # 0) => hist[i].res = "true"

(* C22 witness: the second instance has been started over the socket file   *)
(* of the first and has received a message.                                 *)
C22_Witness ==
    \E i \in TqEvents("start"), j \in TqEvents("recv") :
        /\ hist[i].gen = 2 /\ hist[i].res = "ok"
        /\ hist[j].gen = 2 /\ hist[j].res = "msg"

(* C28: close() raises nothing and leaves the TconQueue released, whatever  *)
(* its state: after every close(), also one before start() or after an      *)
(* earlier close(), no listener and no connection is open and the socket    *)
(* file is gone.                                                            *)
C28_CloseIdempotent ==
    \A i \in TqEvents("close") :
        /\ hist[i].res = "ok"
        /\ hist[i].value.listener # "open"
        /\ ~hist[i].value.connOpen
        /\ ~hist[i].value.artifact

(* C28 witness: a started TconQueue has been closed twice in a row.         *)
C28_Witness ==
    \E i, j \in TqEvents("close") :
        /\ i < j
        /\ hist[i].lis = "open"
        /\ hist[j].lis = "closed"
        /\ hist[j].gen = hist[i].gen

OwnWorkers == {p \in DOMAIN procs : procs[p].inst = sup.inst /\ procs[p].st = "alive"}

(* C23: start() on a ServerProcess whose worker is running is a no-op: the  *)
(* handle is the one it was and no second worker of this instance runs.     *)
C23_StartNoOp ==
    /\ \A i \in SupEvents("start") : hist[i].alive => hist[i].value = hist[i].proc
    /\ Cardinality(OwnWorkers) <= 1

(* C24: stop() on a ServerProcess that holds no process handle raises       *)
(* nothing and changes nothing.                                            *)
C24_StopNoOp ==
    \A i \in SupEvents("stop") : hist[i].proc = 0 =>
        /\ hist[i].res = "ok"
        /\ hist[i].value.proc = 0

(* C25: a stop(timeout) whose worker has not exited when join(timeout)      *)
(* returns completes without raising, with no handle and no queue held.     *)
C25_StopForceProceeds ==
    \A i \in SupEvents("stop") : hist[i].value.timeout =>
        /\ hist[i].res = "ok"
        /\ hist[i].value.proc = 0
        /\ hist[i].value.queue = "none"

(* C26: the queue of a ServerProcess is never closed while a worker that    *)
(* this ServerProcess started is running.                                   *)
C26_WorkerBeforeTransport == sup.queue = "none" => OwnWorkers = {}

(* C27: a stop() that follows a start() leaves no handle and no queue, with *)
(* the worker alive or already killed at the call; a start() of a           *)
(* ServerProcess constructed later spawns a process that no earlier start() *)
(* has spawned.                                                            *)
C27_StartStopCycle ==
    /\ \A i \in SupEvents("stop") : hist[i].proc # 0 =>
        /\ hist[i].value.proc = 0
        /\ hist[i].value.queue = "none"
    /\ \A i, j \in SupEvents("start") :
        (i < j /\ hist[i].inst < hist[j].inst) => hist[i].value # hist[j].value

(* C30: notify is set from an enqueue until the next drain and clear after  *)
(* a drain that has emptied the queue.                                      *)
C30_Notify ==
    /\ (sup.queue = "open" /\ sup.pipe # <<>>) => sup.notify = "set"
    /\ \A e \in SupEvents("end") :
        (e = Len(hist) /\ sup.pipe = <<>> /\ sup.feeder = <<>>)
            => sup.notify # "set"

Submitted == {i \in DOMAIN hist : hist[i].via = "http"}

(* the messages that a request has put: those queued and those drained *)
MessagesOf(i) ==
    Cardinality({k \in DOMAIN queue : queue[k].id = hist[i].cmd.id})
    + Cardinality({j \in DOMAIN hist :
                      hist[j].via = "ipc" /\ hist[j].cmd.id = hist[i].cmd.id})

(* C29: a request puts exactly one message iff it passes validation, and    *)
(* none otherwise; it is answered 202 with accepted true iff it passes,     *)
(* at once and whether or not the command has been executed, and 422 when   *)
(* a mandatory field is missing.                                            *)
C29_EnqueueIffValid ==
    \A i \in Submitted :
        LET valid == /\ hist[i].cmd.ini_time # FieldMissing
                     /\ IniAfterTime(hist[i].cmd.command, hist[i].cmd.time,
                                     hist[i].cmd.ini_time)
        IN /\ MessagesOf(i) = (IF valid THEN 1 ELSE 0)
           /\ valid <=> hist[i].rest.status = "ACCEPTED"
           /\ valid <=> hist[i].rest.accepted
           /\ hist[i].cmd.ini_time = FieldMissing
                => hist[i].rest.status = "UNPROCESSABLE_ENTITY"

(* C29 witness: a request without a mandatory field was answered 422, and   *)
(* an accepted request is still queued, not executed.                       *)
C29_Witness ==
    \E i, j \in Submitted :
        /\ hist[i].rest.status = "UNPROCESSABLE_ENTITY"
        /\ hist[j].rest.status = "ACCEPTED"
        /\ \E k \in DOMAIN queue : queue[k].id = hist[j].cmd.id
        /\ \A e \in Execs : hist[e].cmd.id # hist[j].cmd.id

(* C31: an invalid entry of a schedule list is rejected alone: every valid  *)
(* entry of the configuration is inserted, also when the list or file it    *)
(* stands in holds an invalid one.                                          *)
C31_EntryRejectedAlone ==
    \A i \in Built : hist[i].via = "static" => hist[i].res = "inserted"

(* C32: from_dict raises when the schedule of the configuration holds an    *)
(* invalid entry.                                                           *)
C32_InvalidRaises ==
    \A i \in DOMAIN hist :
        (hist[i].ev = "load" /\ hist[i].value > 0) => hist[i].res = "raised"

(* C33: peek_time() is +infinity on an empty Schedule and otherwise the     *)
(* smallest time of the pending entries, after any pushes and drains.       *)
C33_PeekTime ==
    /\ heap = {} => peek_time(heap) = Inf
    /\ heap # {} =>
        /\ \E e \in heap : e.time = peek_time(heap)
        /\ \A e \in heap : peek_time(heap) <= e.time
    /\ \A i \in Pushes :
        (\A j \in Yields : hist[j].cmd.id # hist[i].cmd.id)
            => peek_time(heap) <= hist[i].cmd.time

(* C33 witness: entries were pushed, the last of them has been popped and   *)
(* the Schedule is empty again.                                             *)
C33_Witness ==
    /\ heap = {}
    /\ peek_time(heap) = Inf
    /\ \E i, k \in Pushes : i # k
    /\ \A i \in Pushes : \E j \in Yields : hist[j].cmd.id = hist[i].cmd.id
    /\ Yields # {}

SchedExecs(s) == {i \in Execs : hist[i].via = "sched" /\ hist[i].step = s}

(* the removals executed in the drain of step s that were pushed during it *)
PushedInDrain(s) ==
    {j \in SchedExecs(s) :
        /\ hist[j].cmd.parent # 0
        /\ \E k \in SchedExecs(s) : hist[k].cmd.id = hist[j].cmd.parent}

(* C35: a command pushed while a drain of the Schedule is under way is not  *)
(* yielded by that drain: no removal is executed from the Schedule in the   *)
(* step in which its creator was executed from the Schedule.                *)
C35_NotInSameDrain == \A s \in 0..step : PushedInDrain(s) = {}

(* C36: the commands one drain hands out are in non-decreasing time order   *)
(* also when handlers push removals during it: a removal pushed during the  *)
(* drain comes after its creator, and no entry pending while the drain runs *)
(* has a smaller time than a command the drain has already handed out.      *)
C36_ReentrantOrder ==
    /\ \A i, j \in Execs :
        (/\ i < j /\ hist[i].step = hist[j].step
         /\ hist[i].via = "sched" /\ hist[j].via = "sched")
            => hist[i].cmd.time <= hist[j].cmd.time
    /\ \A s \in 0..step : \A j \in PushedInDrain(s) : \A k \in SchedExecs(s) :
        hist[k].cmd.id = hist[j].cmd.parent =>
            k < j /\ hist[k].cmd.time < hist[j].cmd.time
    /\ pc \in {"ready", "sched"} =>
        \A i \in SchedExecs(step) : \A e \in heap : hist[i].cmd.time <= e.time

(* C36 witness: in one drain a measure_create was executed, then a command  *)
(* that was pending beside it, and then the removal the measure_create had  *)
(* pushed during the drain.                                                 *)
C36_Witness ==
    \E j \in PushedInDrain(step) : \E k, l \in SchedExecs(step) :
        /\ hist[k].cmd.id = hist[j].cmd.parent
        /\ k < l /\ l < j
        /\ hist[l].cmd.parent = 0

(* C37: one _process_schedule call executes at most the entries present at  *)
(* its start plus one removal for each measure_create with a duration among *)
(* them: only a measure_create that was not itself pushed by a handler      *)
(* pushes a command, and the removals executed in the drain that pushed     *)
(* them are no more than the measure_create commands with a duration that   *)
(* the drain executed and that were there when it began.                    *)
C37_DrainBound ==
    /\ \A j \in Pushes : hist[j].via = "auto" =>
        \E k \in Execs :
            /\ hist[k].cmd.id = hist[j].cmd.parent
            /\ hist[k].cmd.parent = 0
            /\ IsCreate(k) /\ hist[k].cmd.duration > 0
    /\ \A s \in 0..step :
        Cardinality(PushedInDrain(s))
            <= Cardinality({i \in SchedExecs(s) \ PushedInDrain(s) :
                                IsCreate(i) /\ hist[i].cmd.duration > 0})

(* C37 witness: a step has returned in whose drain a removal was executed   *)
(* that the drain itself had pushed.                                        *)
C37_Witness ==
    /\ pc = "idle"
    /\ step >= 1
    /\ PushedInDrain(step) # {}

----------------------------------------------------------------------------
(* The transport phase and messages that are not commands *)

Puts == {i \in DOMAIN hist : hist[i].ev = "put"}
Discards == {i \in DOMAIN hist : hist[i].ev = "discard"}

(* the message of event i is not a command: its discriminator is unknown,  *)
(* or it is an incident without ini_time or with ini_time not after time    *)
NotACommand(i) ==
    \/ hist[i].cmd.command = "no_such_command"
    \/ /\ hist[i].cmd.command = "incident_create"
       /\ \/ hist[i].cmd.ini_time = FieldMissing
          \/ hist[i].cmd.ini_time <= hist[i].cmd.time

(* the transport phase has taken the message id from the queue *)
Taken(id) == \E i \in DOMAIN hist : hist[i].via = "ipc" /\ hist[i].cmd.id = id

(* C38: in the transport phase a message that fails decoding or validation *)
(* is discarded, neither executed nor pushed into the Schedule, and every   *)
(* later message drained in the same step is still processed: a drain that  *)
(* has taken one message of the queue it found takes them all before the    *)
(* phase is left.                                                           *)
C38_InvalidDiscarded ==
    /\ \A i \in Puts :
        NotACommand(i) =>
            /\ \A j \in Execs \cup Pushes : hist[j].cmd.id # hist[i].cmd.id
            /\ \A e \in heap : e.cmd.id # hist[i].cmd.id
            /\ \A j \in DOMAIN hist :
                (hist[j].via = "ipc" /\ hist[j].cmd.id = hist[i].cmd.id)
                    => hist[j].ev = "discard"
    /\ \A i \in Discards : NotACommand(i)
    /\ IsServer(server) =>
        \A k \in DOMAIN startQueue :
            \/ Taken(startQueue[k].id)
            \/ \E n \in DOMAIN queue : queue[n].id = startQueue[k].id
    /\ pc # "ipc" =>
        \A k, l \in DOMAIN startQueue :
            Taken(startQueue[k].id) => Taken(startQueue[l].id)

(* C38 witness: a step has discarded a message and then executed or pushed  *)
(* the message that stood behind it in the queue, and has returned.         *)
C38_Witness ==
    /\ pc = "idle"
    /\ \E i \in Discards : \E j \in Execs \cup Pushes :
        /\ i < j
        /\ hist[j].via = "ipc"
        /\ hist[j].step = hist[i].step
        /\ \E k, l \in DOMAIN startQueue :
            /\ k < l
            /\ startQueue[k].id = hist[i].cmd.id
            /\ startQueue[l].id = hist[j].cmd.id

(* a command of the step failed: error result, exception, no handler for   *)
(* its kind, or a message that is not a command                             *)
Failures == {"err", "raise", "nohandler", "invalid"}

(* C34: AAPIManage returns 0 (continue) for every step, whatever happens  *)
(* to the commands processed in it.  The host thread leaves a step only    *)
(* at the return statement, after _process_schedule has found nothing due   *)
(* any more, and a command that ends with an error result, an exception,    *)
(* an unknown kind or an undecodable message leaves it where it was in     *)
(* the loop that took the command.                                          *)
C34_ReturnsZero ==
    [][/\ (pc \in {"ipc", "sched"} /\ pc' = "idle")
            => (pc = "sched" /\ ~ReadyCond(heap, clock) /\ UNCHANGED hist)
       /\ (/\ pc \in {"ipc", "sched"}
           /\ Len(hist') > Len(hist)
           /\ hist'[Len(hist')].res \in Failures)
            => pc' = pc]_vars

(* C34 witness: a step in which a message was discarded and a handler      *)
(* raised has returned.                                                     *)
C34_Witness ==
    /\ pc = "idle"
    /\ step >= 1
    /\ \E i \in Discards : \E j \in Execs :
        /\ hist[i].step = step
        /\ hist[j].step = step
        /\ hist[j].res = "raise"

C39_AfterCleanStop ==
    [][/\ (server = "none")
            => \A k \in (Len(hist) + 1)..Len(hist') :
                ~(hist'[k].via = "ipc" /\ hist'[k].ev \in {"exec", "push"})
       /\ (server = "started" /\ server' # "started")
            => (heap' = heap /\ order' = order)]_vars

----------------------------------------------------------------------------
(* The drain of AAPISimulationReady: the executions before the first step *)

ReadyExecs == {i \in Execs : hist[i].step = 0}

(* command of execution i goes before that of j in (time, sequence) order;  *)
(* static commands are numbered in the order of their insertion             *)
Before(i, j) ==
    \/ hist[i].cmd.time < hist[j].cmd.time
    \/ hist[i].cmd.time = hist[j].cmd.time /\ hist[i].cmd.id < hist[j].cmd.id

(* C40: AAPISimulationReady executes, before the first step, exactly the   *)
(* commands of the static schedule with time <= 0, the IMMEDIATE ones      *)
(* included, in (time, sequence) order, and leaves every command with       *)
(* time > 0 in the Schedule.                                                *)
C40_ReadyExactlyStatic ==
    /\ \A i \in ReadyExecs :
        /\ hist[i].via = "sched"
        /\ hist[i].cmd.parent = 0
        /\ hist[i].cmd.time <= 0
    /\ \A i, j \in ReadyExecs : i < j => Before(i, j)
    /\ (pc = "idle" /\ step = 0) => \A e \in heap : e.time > 0

(* C40 for the commands of the static schedule alone: those with time <= 0 *)
(* are executed in (time, sequence) order and nothing due is left           *)
C40_ReadyStatic ==
    /\ \A i \in ReadyExecs :
        /\ hist[i].via = "sched"
        /\ hist[i].cmd.parent = 0 => hist[i].cmd.time <= 0
    /\ \A i, j \in ReadyExecs :
        (i < j /\ hist[i].cmd.parent = 0 /\ hist[j].cmd.parent = 0)
            => Before(i, j)
    /\ (pc = "idle" /\ step = 0) => \A e \in heap : e.time > 0

====
